---- MODULE Spec2Model ----
(***************************************************************************)
(* sudoku2lp: conversion of a textual Sudoku puzzle (4x4, 6x6 or 9x9) to a *)
(* binary integer linear program in LP format (src/src/main.rs).           *)
(*                                                                         *)
(* Text is a sequence of one-character strings; the written file is a      *)
(* sequence of lines (one per writeln!).  A variable index, a term         *)
(* <<index, coefficient>>, a constraint (a sequence of terms) and the      *)
(* right-hand side [op, value] are the values of LpInfo.                   *)
(***************************************************************************)
EXTENDS Integers, Sequences, FiniteSets, TLC

VARIABLES
    in_file,      \* the input file: [exists, text]
    pc,           \* position of main / generate
    puzzle,       \* the normalized puzzle string returned by load
    geom,         \* (size, box_rows, box_cols) selected by generate
    objective,    \* generate's local objective
    constraints,  \* generate's local constraints
    b,            \* generate's local b
    lp,           \* the result of generate: [ok, objective, b, constraints]
    out_file,     \* the output file: [exists, lines]
    assign,       \* values a solver gives to the Binary variables x0..x(n-1)
    free,         \* values a solver gives to variables not declared Binary
    triple,       \* a (row, col, value) triple
    index         \* a variable index

vars == <<in_file, pc, puzzle, geom, objective, constraints, b, lp, out_file,
          assign, free, triple, index>>

-----------------------------------------------------------------------------
(* Bounds *)

\* largest number of clues in an enumerated puzzle
MaxClues == 2
\* largest value a solver gives to a variable that is not declared Binary
MaxFree == 2

-----------------------------------------------------------------------------
(* Characters *)

DigitChars == {"0", "1", "2", "3", "4", "5", "6", "7", "8", "9"}

\* char::is_digit(10)
is_digit(c) == c \in DigitChars

\* char::to_digit(10).unwrap() on a digit
to_digit == [c \in DigitChars |->
    CASE c = "0" -> 0 [] c = "1" -> 1 [] c = "2" -> 2 [] c = "3" -> 3
      [] c = "4" -> 4 [] c = "5" -> 5 [] c = "6" -> 6 [] c = "7" -> 7
      [] c = "8" -> 8 [] c = "9" -> 9]

-----------------------------------------------------------------------------
(* load *)

\* puzzle.replace(".", "0")
replace(text) == [i \in 1..Len(text) |-> IF text[i] = "." THEN "0" ELSE text[i]]

\* puzzle.retain(|c| c.is_digit(10))
retain(text) == SelectSeq(text, is_digit)

load(text) == retain(replace(text))

-----------------------------------------------------------------------------
(* generate *)

NoGeom == [ok |-> FALSE, size |-> 0, box_rows |-> 0, box_cols |-> 0]

\* a match whose default arm takes any other length for a 4x4 puzzle
Geometry_default4(len) ==
    CASE len = 81 -> [ok |-> TRUE, size |-> 9, box_rows |-> 3, box_cols |-> 3]
      [] len = 36 -> [ok |-> TRUE, size |-> 6, box_rows |-> 2, box_cols |-> 3]
      [] OTHER -> [ok |-> TRUE, size |-> 4, box_rows |-> 2, box_cols |-> 2]

\* match puzzle.len() { 81 => (9,3,3), 36 => (6,2,3), 16 => (4,2,2), _ => bail!() }
Geometry(len) ==
    CASE len = 81 -> [ok |-> TRUE, size |-> 9, box_rows |-> 3, box_cols |-> 3]
      [] len = 36 -> [ok |-> TRUE, size |-> 6, box_rows |-> 2, box_cols |-> 3]
      [] len = 16 -> [ok |-> TRUE, size |-> 4, box_rows |-> 2, box_cols |-> 2]
      [] OTHER -> NoGeom

\* an index that scales the row by size, not by size * size
x_row_by_size(size, row, col, value) == row * size + col * size + value

\* let x = |row, col, value| row * size * size + col * size + value
x(size, row, col, value) == row * size * size + col * size + value

\* vec![1; size * size * size]
Objective(size) == [i \in 1..(size * size * size) |-> 1]

EQ(value) == [op |-> "EQ", value |-> value]
GE(value) == [op |-> "GE", value |-> value]

\* for row, for col: (0..size).map(|v| (x(row, col, v), 1)), one per (row, col)
CellFill(size) ==
    [n \in 1..(size * size) |->
        LET row == (n - 1) \div size
            col == (n - 1) % size
        IN  [k \in 1..size |-> <<x(size, row, col, k - 1), 1>>]]

\* for row, for v: (0..size).map(|col| (x(row, col, v), 1))
RowUnique(size) ==
    [n \in 1..(size * size) |->
        LET row == (n - 1) \div size
            v   == (n - 1) % size
        IN  [k \in 1..size |-> <<x(size, row, k - 1, v), 1>>]]

\* for col, for v: (0..size).map(|row| (x(row, col, v), 1))
ColUnique(size) ==
    [n \in 1..(size * size) |->
        LET col == (n - 1) \div size
            v   == (n - 1) % size
        IN  [k \in 1..size |-> <<x(size, k - 1, col, v), 1>>]]

\* a start row that divides by the boxes per column of boxes
start_row_by_box_rows(size, box_rows, box_cols, subgrid) ==
    (subgrid \div (size \div box_rows)) * box_rows

start_row(size, box_rows, box_cols, subgrid) ==
    (subgrid \div (size \div box_cols)) * box_rows

\* a start column that wraps at the boxes per column of boxes
start_col_by_box_rows(size, box_rows, box_cols, subgrid) ==
    (subgrid % (size \div box_rows)) * box_cols

start_col(size, box_rows, box_cols, subgrid) ==
    (subgrid % (size \div box_cols)) * box_cols

\* a subgrid loop that stops one box early (0..size - 1)
BoxUnique_short(size, box_rows, box_cols) ==
    [n \in 1..(size * (size - 1)) |->
        LET subgrid == (n - 1) \div size
            v       == (n - 1) % size
        IN  [k \in 1..(box_rows * box_cols) |->
                LET r   == (k - 1) \div box_cols
                    c   == (k - 1) % box_cols
                    row == r + start_row(size, box_rows, box_cols, subgrid)
                    col == c + start_col(size, box_rows, box_cols, subgrid)
                IN  <<x(size, row, col, v), 1>>]]

\* for subgrid, for v: for r in 0..box_rows, for c in 0..box_cols
BoxUnique(size, box_rows, box_cols) ==
    [n \in 1..(size * size) |->
        LET subgrid == (n - 1) \div size
            v       == (n - 1) % size
        IN  [k \in 1..(box_rows * box_cols) |->
                LET r   == (k - 1) \div box_cols
                    c   == (k - 1) % box_cols
                    row == r + start_row(size, box_rows, box_cols, subgrid)
                    col == c + start_col(size, box_rows, box_cols, subgrid)
                IN  <<x(size, row, col, v), 1>>]]

\* a clue term on the digit itself, not on digit - 1
ClueTerm_digit(size, i, c) ==
    LET val == to_digit[c]
        row == i \div size
        col == i % size
    IN  <<x(size, row, col, val), 1>>

\* the term of the clue c at flat position i (zero-based)
ClueTerm(size, i, c) ==
    LET val == to_digit[c]
        row == i \div size
        col == i % size
    IN  <<x(size, row, col, val - 1), 1>>

\* puzzle.chars().enumerate().filter(|(_, c)| *c != '0').map(..).collect(),
\* from the (one-based) position i on
RECURSIVE Clues(_, _, _)
Clues(text, size, i) ==
    IF i > Len(text) THEN <<>>
    ELSE (IF text[i] # "0" THEN <<ClueTerm(size, i - 1, text[i])>> ELSE <<>>)
         \o Clues(text, size, i + 1)

\* b.push(Equality::GE(constraint.len() as i64))
ClueRhs(constraint) == GE(Len(constraint))

Ones(n) == [i \in 1..n |-> EQ(1)]

\* the variables of a constraint
VarsOf(constraint) == {constraint[t][1] : t \in 1..Len(constraint)}

NoLp == [ok |-> FALSE, objective |-> <<>>, b |-> <<>>, constraints |-> <<>>]

-----------------------------------------------------------------------------
(* impl fmt::Display for Equality, constraint2eqn, impl fmt::Display for LpInfo *)

\* [String]::join(sep), computed by halves
RECURSIVE join(_, _)
join(strs, sep) ==
    IF Len(strs) = 0 THEN ""
    ELSE IF Len(strs) = 1 THEN strs[1]
    ELSE LET h == Len(strs) \div 2
         IN  join(SubSeq(strs, 1, h), sep) \o sep
             \o join(SubSeq(strs, h + 1, Len(strs)), sep)

EqualityFmt(rhs) ==
    IF rhs.op = "EQ" THEN " = " \o ToString(rhs.value)
    ELSE ">= " \o ToString(rhs.value)

TermFmt(term) == ToString(term[2]) \o " x" \o ToString(term[1])

\* a constraint2eqn that writes an empty sum as 0
constraint2eqn_zero(constraint, rhs) ==
    LET eqn == join([k \in 1..Len(constraint) |-> TermFmt(constraint[k])], " + ")
    IN  (IF Len(constraint) = 0 THEN "0" ELSE eqn) \o " " \o EqualityFmt(rhs)

constraint2eqn(constraint, rhs) ==
    LET eqn == join([k \in 1..Len(constraint) |-> TermFmt(constraint[k])], " + ")
    IN  eqn \o " " \o EqualityFmt(rhs)

\* (0..self.objective.len()).map(|i| format!("x{i}"))
VarNames(obj) == [i \in 1..Len(obj) |-> "x" \o ToString(i - 1)]

Min(m, n) == IF m < n THEN m ELSE n

\* an objective section that writes the terms of the objective
ObjectiveLines_terms(model) ==
    <<"Minimize",
      join([k \in 1..Len(model.objective) |->
               ToString(model.objective[k]) \o " x" \o ToString(k - 1)], " + ")>>

\* writeln!(f, "Minimize\n0")
ObjectiveLines(model) == <<"Minimize", "0">>

\* self.constraints.iter().zip(&self.b)
ConstraintLines(model) ==
    [k \in 1..Min(Len(model.constraints), Len(model.b)) |->
        constraint2eqn(model.constraints[k], model.b[k])]

Display(model) ==
    ObjectiveLines(model) \o <<"Subject To">> \o ConstraintLines(model)
    \o <<"Binary", join(VarNames(model.objective), " "), "End">>

-----------------------------------------------------------------------------
(* The inputs *)

ValidLens == {16, 36, 81}
OtherLens == {0, 15, 17, 80}

ClueCells(len) == {i \in {1, 12, len} : i <= len}
ClueDigits == {"1", "4", "9"}

ClueSets(len) ==
    UNION {[S -> ClueDigits] :
             S \in {T \in SUBSET ClueCells(len) : Cardinality(T) <= MaxClues}}

PuzzleOf(len, clues) ==
    [i \in 1..len |-> IF i \in DOMAIN clues THEN clues[i] ELSE "0"]

Puzzles(len) == {PuzzleOf(len, clues) : clues \in ClueSets(len)}

\* the same puzzle written with "." for blanks and a line end
Dotted(text) ==
    [i \in 1..(Len(text) + 1) |->
        IF i > Len(text) THEN "\n" ELSE IF text[i] = "0" THEN "." ELSE text[i]]

Texts(len) == Puzzles(len) \cup {Dotted(p) : p \in Puzzles(len)}

NoInFile == [exists |-> FALSE, text |-> <<>>]
NoOutFile == [exists |-> FALSE, lines |-> <<>>]

-----------------------------------------------------------------------------
(* main *)

Idle ==
    /\ assign = <<>>
    /\ free = <<>>
    /\ triple = <<>>
    /\ index = -1

Init ==
    /\ in_file \in {NoInFile}
         \cup {[exists |-> TRUE, text |-> t] :
                 t \in UNION {Texts(len) : len \in ValidLens \cup OtherLens}}
    /\ pc = "start"
    /\ puzzle = <<>>
    /\ geom = NoGeom
    /\ objective = <<>>
    /\ constraints = <<>>
    /\ b = <<>>
    /\ lp = NoLp
    /\ out_file = NoOutFile
    /\ Idle

\* if let Ok(puzzle) = load(&args.in_file)
Load ==
    /\ pc = "start"
    /\ in_file.exists
    /\ puzzle' = load(in_file.text)
    /\ pc' = "loaded"
    /\ UNCHANGED <<in_file, geom, objective, constraints, b, lp, out_file,
                   assign, free, triple, index>>

\* std::fs::read_to_string(file)? fails: main does nothing
LoadErr ==
    /\ pc = "start"
    /\ ~in_file.exists
    /\ pc' = "noinput"
    /\ UNCHANGED <<in_file, puzzle, geom, objective, constraints, b, lp,
                   out_file, assign, free, triple, index>>

\* generate: the match on puzzle.len() and the three initial locals
GenerateBegin ==
    /\ pc = "loaded"
    /\ Geometry(Len(puzzle)).ok
    /\ geom' = Geometry(Len(puzzle))
    /\ objective' = Objective(geom'.size)
    /\ b' = <<>>
    /\ constraints' = <<>>
    /\ pc' = "cells"
    /\ UNCHANGED <<in_file, puzzle, lp, out_file, assign, free, triple, index>>

\* generate: bail!; main's `if let Ok(lp)` does not match
GenerateBail ==
    /\ pc = "loaded"
    /\ ~Geometry(Len(puzzle)).ok
    /\ pc' = "failed"
    /\ UNCHANGED <<in_file, puzzle, geom, objective, constraints, b, lp,
                   out_file, assign, free, triple, index>>

\* generate: "Each cell x_rc contains one value"
GenerateCells ==
    /\ pc = "cells"
    /\ constraints' = constraints \o CellFill(geom.size)
    /\ b' = b \o Ones(geom.size * geom.size)
    /\ pc' = "rows"
    /\ UNCHANGED <<in_file, puzzle, geom, objective, lp, out_file,
                   assign, free, triple, index>>

\* generate: "A value only appears once in each row"
GenerateRows ==
    /\ pc = "rows"
    /\ constraints' = constraints \o RowUnique(geom.size)
    /\ b' = b \o Ones(geom.size * geom.size)
    /\ pc' = "cols"
    /\ UNCHANGED <<in_file, puzzle, geom, objective, lp, out_file,
                   assign, free, triple, index>>

\* generate: "A value only appears once in each col"
GenerateCols ==
    /\ pc = "cols"
    /\ constraints' = constraints \o ColUnique(geom.size)
    /\ b' = b \o Ones(geom.size * geom.size)
    /\ pc' = "boxes"
    /\ UNCHANGED <<in_file, puzzle, geom, objective, lp, out_file,
                   assign, free, triple, index>>

\* generate: "A value appears only once in each subgrid"
GenerateBoxes ==
    /\ pc = "boxes"
    /\ constraints' = constraints
                        \o BoxUnique(geom.size, geom.box_rows, geom.box_cols)
    /\ b' = b \o Ones(geom.size * geom.size)
    /\ pc' = "clues"
    /\ UNCHANGED <<in_file, puzzle, geom, objective, lp, out_file,
                   assign, free, triple, index>>

\* generate: "The original clues from the puzzle", and Ok(LpInfo {..})
GenerateClues ==
    /\ pc = "clues"
    /\ LET constraint == Clues(puzzle, geom.size, 1)
       IN  /\ b' = Append(b, ClueRhs(constraint))
           /\ constraints' = Append(constraints, constraint)
    /\ lp' = [ok |-> TRUE, objective |-> objective, b |-> b',
              constraints |-> constraints']
    /\ pc' = "generated"
    /\ UNCHANGED <<in_file, puzzle, geom, objective, out_file,
                   assign, free, triple, index>>

\* File::create(out_file)
CreateFile ==
    /\ pc = "generated"
    /\ out_file' = [exists |-> TRUE, lines |-> <<>>]
    /\ pc' = "created"
    /\ UNCHANGED <<in_file, puzzle, geom, objective, constraints, b, lp,
                   assign, free, triple, index>>

\* write!(output, "{}", lp)
WriteFile ==
    /\ pc = "created"
    /\ out_file' = [exists |-> TRUE, lines |-> Display(lp)]
    /\ pc' = "done"
    /\ UNCHANGED <<in_file, puzzle, geom, objective, constraints, b, lp,
                   assign, free, triple, index>>

Next ==
    \/ Load
    \/ LoadErr
    \/ GenerateBegin
    \/ GenerateBail
    \/ GenerateCells
    \/ GenerateRows
    \/ GenerateCols
    \/ GenerateBoxes
    \/ GenerateClues
    \/ CreateFile
    \/ WriteFile

Spec == Init /\ [][Next]_vars

-----------------------------------------------------------------------------
(* The variable index on its own: x applied to every triple of every board *)

Cube(size) ==
    {<<r, c, v>> : r \in 0..(size - 1), c \in 0..(size - 1), v \in 0..(size - 1)}

InitIndex ==
    /\ in_file = NoInFile
    /\ pc = "triple"
    /\ puzzle = <<>>
    /\ geom \in {Geometry(len) : len \in ValidLens}
    /\ objective = <<>>
    /\ constraints = <<>>
    /\ b = <<>>
    /\ lp = NoLp
    /\ out_file = NoOutFile
    /\ assign = <<>>
    /\ free = <<>>
    /\ triple \in Cube(geom.size)
    /\ index = -1

\* x(row, col, value)
Index ==
    /\ pc = "triple"
    /\ index' = x(geom.size, triple[1], triple[2], triple[3])
    /\ pc' = "indexed"
    /\ UNCHANGED <<in_file, puzzle, geom, objective, constraints, b, lp,
                   out_file, assign, free, triple>>

NextIndex == Index

SpecIndex == InitIndex /\ [][NextIndex]_vars

-----------------------------------------------------------------------------
(* A solver given the model of a 4x4 puzzle.  It answers with any values    *)
(* that satisfy every constraint: 0 or 1 for the variables the Binary       *)
(* section declares, 0..MaxFree for a variable it does not declare.         *)

SolverGeom == Geometry(16)

Structural ==
    CellFill(SolverGeom.size) \o RowUnique(SolverGeom.size)
    \o ColUnique(SolverGeom.size)
    \o BoxUnique(SolverGeom.size, SolverGeom.box_rows, SolverGeom.box_cols)

\* the triple of each variable index
TripleOf ==
    [i \in 0..(SolverGeom.size * SolverGeom.size * SolverGeom.size - 1) |->
        CHOOSE t \in Cube(SolverGeom.size) :
            x(SolverGeom.size, t[1], t[2], t[3]) = i]

Perms ==
    {p \in [1..SolverGeom.size -> 0..(SolverGeom.size - 1)] :
        \A i, j \in 1..SolverGeom.size : i # j => p[i] # p[j]}

\* the assignment in which cell (row, col) holds rows[row + 1][col + 1];
\* the cells of the rows that are not given hold nothing
AssignOf(rows) ==
    [i \in DOMAIN TripleOf |->
        LET t == TripleOf[i]
        IN  IF t[1] < Len(rows) /\ rows[t[1] + 1][t[2] + 1] = t[3] THEN 1 ELSE 0]

\* the value of a variable
Value(a, fr, var) == IF var \in DOMAIN a THEN a[var] ELSE fr[var]

\* the left-hand side of a constraint, from its term k on
RECURSIVE Sum(_, _, _, _)
Sum(constraint, a, fr, k) ==
    IF k > Len(constraint) THEN 0
    ELSE constraint[k][2] * Value(a, fr, constraint[k][1])
         + Sum(constraint, a, fr, k + 1)

Holds(constraint, rhs, a, fr) ==
    IF rhs.op = "EQ" THEN Sum(constraint, a, fr, 1) = rhs.value
    ELSE Sum(constraint, a, fr, 1) >= rhs.value

Satisfies(model, a, fr) ==
    \A k \in 1..Len(model.constraints) :
        Holds(model.constraints[k], model.b[k], a, fr)

\* no structural sum is above 1 (a sum above 1 stays above 1 in every
\* assignment with more cells filled)
NoOverfill(a) ==
    \A k \in 1..Len(Structural) : Sum(Structural[k], a, <<>>, 1) <= 1

\* the searched grids of the first k rows
RECURSIVE PartialGrids(_)
PartialGrids(k) ==
    IF k = 0 THEN {<<>>}
    ELSE {g \in {Append(h, p) : h \in PartialGrids(k - 1), p \in Perms} :
            NoOverfill(AssignOf(g))}

Candidates == {AssignOf(g) : g \in PartialGrids(SolverGeom.size)}

\* the variables of the constraints that the Binary section does not declare
Undeclared(model) ==
    {var \in UNION {VarsOf(model.constraints[k]) : k \in 1..Len(model.constraints)} :
        var >= Len(model.objective)}

InitSolve ==
    /\ Init
    /\ in_file.exists
    /\ in_file.text \in Texts(16)

Solve ==
    /\ pc = "generated"
    /\ \E a \in Candidates : \E fr \in [Undeclared(lp) -> 0..MaxFree] :
          /\ Satisfies(lp, a, fr)
          /\ assign' = a
          /\ free' = fr
    /\ pc' = "solved"
    /\ UNCHANGED <<in_file, puzzle, geom, objective, constraints, b, lp,
                   out_file, triple, index>>

NextSolve ==
    \/ Load
    \/ GenerateBegin
    \/ GenerateCells
    \/ GenerateRows
    \/ GenerateCols
    \/ GenerateBoxes
    \/ GenerateClues
    \/ Solve

SpecSolve == InitSolve /\ [][NextSolve]_vars

-----------------------------------------------------------------------------
(* Properties of generate and of the written file *)

\* the board size the documentation gives for a puzzle length
BoardSize ==
    CASE Len(puzzle) = 16 -> 4 [] Len(puzzle) = 36 -> 6 [] Len(puzzle) = 81 -> 9
      [] OTHER -> 0

BoardBoxRows == IF BoardSize = 9 THEN 3 ELSE 2
BoardBoxCols == IF BoardSize = 4 THEN 2 ELSE 3

\* the one-based positions of the non-blank cells of the puzzle
NonBlank == {i \in 1..Len(puzzle) : puzzle[i] # "0"}

\* a constraint has a term on a variable
Has(var, constraint) == \E t \in 1..Len(constraint) : constraint[t][1] = var

\* C1: for a puzzle of length 16, 36 or 81 generate returns exactly
\* 4*size^2 + 1 constraints and as many right-hand sides: 65, 145, 325; the
\* all-zero puzzle of length 81 gives 325.
C1_ConstraintCount ==
    lp.ok =>
        /\ Len(lp.constraints) = 4 * BoardSize * BoardSize + 1
        /\ Len(lp.b) = Len(lp.constraints)
        /\ Len(puzzle) = 16 => Len(lp.constraints) = 65
        /\ Len(puzzle) = 36 => Len(lp.constraints) = 145
        /\ Len(puzzle) = 81 => Len(lp.constraints) = 325

C1_Witness ==
    /\ lp.ok
    /\ Len(puzzle) = 81
    /\ NonBlank = {}
    /\ Len(lp.constraints) = 325

\* C2: for an input whose length is not 16, 36 or 81 (the empty string
\* included) generate fails before it builds anything, returns no model, and
\* main creates no output file.
C2_InvalidSizeFails ==
    (pc \notin {"start", "noinput"} /\ Len(puzzle) \notin {16, 36, 81}) =>
        /\ pc \in {"loaded", "failed"}
        /\ ~lp.ok
        /\ objective = <<>> /\ constraints = <<>> /\ b = <<>>
        /\ ~out_file.exists

C2_Witness ==
    /\ pc = "failed"
    /\ in_file.exists
    /\ Len(puzzle) = 0
    /\ ~out_file.exists

\* C3: the last constraint generate emits is the clue constraint: one term
\* of coefficient 1 per non-blank cell, in scan order, on the variable
\* (i div size, i mod size, d - 1) of the cell at flat position i with digit
\* d; its operator is >= and its right-hand side is the number of non-blank
\* cells; every other constraint is an equality.
C3_ClueConstraint ==
    lp.ok =>
        LET n    == Len(lp.constraints)
            clue == lp.constraints[n]
            size == BoardSize
        IN  /\ Len(lp.b) = n
            /\ lp.b[n] = [op |-> "GE", value |-> Cardinality(NonBlank)]
            /\ \A k \in 1..(n - 1) : lp.b[k] = [op |-> "EQ", value |-> 1]
            /\ Len(clue) = Cardinality(NonBlank)
            /\ \A i \in NonBlank :
                 LET rank == Cardinality({j \in NonBlank : j <= i})
                     row  == (i - 1) \div size
                     col  == (i - 1) % size
                     val  == to_digit[puzzle[i]] - 1
                 IN  clue[rank] = <<row * size * size + col * size + val, 1>>

C3_Witness ==
    /\ lp.ok
    /\ Cardinality(NonBlank) = 2
    /\ 12 \in NonBlank
    /\ Len(lp.constraints[Len(lp.constraints)]) = 2
    /\ lp.b[Len(lp.b)].value = 2

\* C6: every variable that appears in an emitted constraint is declared in
\* the Binary section of the written file: its name is one of x0..x(size^3-1).
C6_AllVariablesDeclared ==
    pc = "done" =>
        LET declared == {VarNames(lp.objective)[i] : i \in 1..Len(lp.objective)}
        IN  \A k \in 1..Len(lp.constraints) :
                \A var \in VarsOf(lp.constraints[k]) :
                    /\ ("x" \o ToString(var)) \in declared
                    /\ var \in 0..(BoardSize * BoardSize * BoardSize - 1)

\* C7: the box-uniqueness constraint of box bx and value v has exactly the
\* box_rows*box_cols variables (r, c, v) of the rows and columns of the box
\* whose corner is ((bx div (size div box_cols)) * box_rows,
\* (bx mod (size div box_cols)) * box_cols); on the 6x6 board box 1 starts at
\* (0, 3) and box 2 at (2, 0).
C7_BoxGeometry ==
    lp.ok =>
        LET size == BoardSize
            br   == BoardBoxRows
            bc   == BoardBoxCols
            box(bx, v) == lp.constraints[3 * size * size + bx * size + v + 1]
        IN  /\ \A bx \in 0..(size - 1) : \A v \in 0..(size - 1) :
                 LET sr == (bx \div (size \div bc)) * br
                     sc == (bx % (size \div bc)) * bc
                 IN  /\ Len(box(bx, v)) = br * bc
                     /\ VarsOf(box(bx, v))
                          = {r * size * size + c * size + v :
                               r \in sr..(sr + br - 1), c \in sc..(sc + bc - 1)}
                     /\ \A t \in 1..Len(box(bx, v)) : box(bx, v)[t][2] = 1
            /\ size = 6 =>
                 \A v \in 0..5 :
                    /\ box(1, v)[1][1] = 0 * 36 + 3 * 6 + v
                    /\ box(2, v)[1][1] = 2 * 36 + 0 * 6 + v

C7_Witness ==
    /\ lp.ok
    /\ Len(puzzle) = 36
    /\ lp.constraints[3 * 36 + 2 * 6 + 1][1] = <<72, 1>>

\* C8 (as documented): the line after Minimize renders the objective of the
\* model, the all-ones vector of length size^3, as `<coefficient> x<index>`
\* terms joined by ` + `.
C8_ObjectiveRendered ==
    pc = "done" =>
        /\ Len(lp.objective) = BoardSize * BoardSize * BoardSize
        /\ out_file.lines[1] = "Minimize"
        /\ out_file.lines[2]
             = join([k \in 1..Len(lp.objective) |->
                        ToString(lp.objective[k]) \o " x" \o ToString(k - 1)],
                    " + ")

\* C8 (amended): the model's objective is the all-ones vector of length
\* size^3, and the objective section of the written file is the single line
\* `0`: the objective is not rendered.
C8_ObjectiveIsZero ==
    pc = "done" =>
        /\ Len(lp.objective) = BoardSize * BoardSize * BoardSize
        /\ \A k \in 1..Len(lp.objective) : lp.objective[k] = 1
        /\ out_file.lines[1] = "Minimize"
        /\ out_file.lines[2] = "0"
        /\ out_file.lines[3] = "Subject To"

C8_Witness ==
    /\ pc = "done"
    /\ Len(lp.objective) = 64
    /\ out_file.lines[2] = "0"

\* C9 (as documented): no emitted constraint has zero terms.
C9_NoEmptyConstraint ==
    lp.ok => \A k \in 1..Len(lp.constraints) : Len(lp.constraints[k]) > 0

\* C9 (amended): none of the 4*size^2 structural constraints has zero
\* terms; the clue constraint has zero terms exactly when the puzzle is
\* all-blank, and is then written as the empty sum ` >= 0`.
C9_OnlyBlankClueEmpty ==
    lp.ok =>
        LET n == Len(lp.constraints)
        IN  /\ \A k \in 1..(n - 1) : Len(lp.constraints[k]) > 0
            /\ Len(lp.constraints[n]) = 0 <=> NonBlank = {}
            /\ (pc = "done" /\ NonBlank = {}) =>
                 /\ Len(out_file.lines) = n + 6
                 /\ out_file.lines[n + 3] = " >= 0"

C9_Witness ==
    /\ pc = "done"
    /\ NonBlank = {}
    /\ Len(puzzle) = 16
    /\ lp.constraints[65] = <<>>
    /\ out_file.lines[68] = " >= 0"

\* C10: every variable (row, col, value) occurs, with coefficient 1 and
\* once, in exactly one cell-fill, one row, one column and one box
\* constraint, so in exactly 4 of the first 4*size^2 constraints; every cell
\* is in exactly one box.  (A family has size^2 constraints of size terms
\* each; its size^3 terms are on size^3 different variables, and these are
\* all the variables: each variable has one term in the family.)
C10_EachVariableOncePerFamily ==
    lp.ok =>
        LET size == BoardSize
            n == size * size * size
            family(f) == (f * size * size + 1)..((f + 1) * size * size)
            varsOfFamily(f) == UNION {VarsOf(lp.constraints[k]) : k \in family(f)}
        IN  /\ \A k \in 1..(4 * size * size) :
                 /\ Len(lp.constraints[k]) = size
                 /\ \A t \in 1..size : lp.constraints[k][t][2] = 1
            /\ \A f \in 0..3 :
                 /\ Cardinality(varsOfFamily(f)) = n
                 /\ varsOfFamily(f) = 0..(n - 1)
            /\ \A row \in 0..(size - 1) : \A col \in 0..(size - 1) :
                 Cardinality({bx \in 0..(size - 1) :
                    Has(row * size * size + col * size,
                        lp.constraints[3 * size * size + bx * size + 1])})
                   = 1

C10_Witness ==
    /\ lp.ok
    /\ Len(puzzle) = 36
    /\ Cardinality({k \in 1..144 : Has(215, lp.constraints[k])}) = 4

\* C4: in every assignment that satisfies all the emitted constraints,
\* every variable of the clue constraint has value 1, that is, every clue
\* cell holds its given digit.
C4_CluesForced ==
    pc = "solved" =>
        LET size == BoardSize
            clue == lp.constraints[Len(lp.constraints)]
        IN  /\ \A var \in VarsOf(clue) : Value(assign, free, var) = 1
            /\ \A i \in NonBlank :
                 LET row == (i - 1) \div size
                     col == (i - 1) % size
                 IN  {v + 1 : v \in {w \in 0..(size - 1) :
                         assign[row * size * size + col * size + w] = 1}}
                       = {to_digit[puzzle[i]]}

\* the triple an index stands for
Decode(size, i) == <<i \div (size * size), (i \div size) % size, i % size>>

\* C5: for size 4, 6 and 9 the index row*size^2 + col*size + value is a
\* bijection from the triples of [0, size)^3 onto [0, size^3): decoding the
\* index of a triple gives the triple, and every index is the index of the
\* triple it decodes to.
C5_IndexBijection ==
    pc = "indexed" =>
        LET size == geom.size
            n    == size * size * size
        IN  /\ size \in {4, 6, 9}
            /\ index = triple[1] * size * size + triple[2] * size + triple[3]
            /\ index \in 0..(n - 1)
            /\ Decode(size, index) = triple
            /\ \A i \in 0..(n - 1) :
                 /\ \A j \in 1..3 : Decode(size, i)[j] \in 0..(size - 1)
                 /\ x(size, Decode(size, i)[1], Decode(size, i)[2],
                      Decode(size, i)[3]) = i

C5_Witness ==
    /\ pc = "indexed"
    /\ geom.size = 6
    /\ triple = <<5, 4, 3>>
    /\ index = 207

====
